---- MODULE Spec2Model ----
(***************************************************************************)
(* A model of the two scripts of the Game24 evaluation tooling:            *)
(*   format_kaggle_submission.py  (loader, extractor, aggregator,          *)
(*                                 submission builder, main)               *)
(*   validate_setup.py            (the setup validator)                    *)
(*                                                                         *)
(* Strings are sequences of one-character strings, so that str.strip() is  *)
(* computed and not assumed.  JSON values are tagged records.  Floating    *)
(* point confidences are finite non-negative decimals counted in tenths    *)
(* (0.8 is 8); NaN and infinities are outside the model.                   *)
(***************************************************************************)
EXTENDS Integers, Sequences, FiniteSets, TLC

VARIABLES
    pc,                 \* position of the running script or function
    item,               \* argument of extract_best_solution / get_solution_confidence
    method,             \* argument of the same two functions
    ret,                \* what the function under call returned or raised
    fs,                 \* results_dir: method name -> "missing" or directory listing
    results,            \* load_evaluation_results' mapping, as a sequence of <<method, payload>>
    problem_solutions,  \* extract_problem_solutions' list
    final_solutions,    \* aggregate_solutions' mapping
    csv_file,           \* tsllm/envs/game24/24.csv: absent, or its columns and rows
    test_df,            \* the canonical table create_kaggle_submission loaded
    out_file,           \* the output CSV: whether it was written, and its rows
    stdout,             \* what has been printed
    out_dir_made,       \* os.makedirs of the output directory has run
    exc,                \* "none" or the uncaught exception that ended the run
    all_good,           \* validate_setup.main: all_good
    evaluated,          \* validate_setup.main: the checks evaluated so far, with outcomes
    exit_code           \* validate_setup: the process exit status (-1 while running)

vars == <<pc, item, method, ret, fs, results, problem_solutions, final_solutions,
          csv_file, test_df, out_file, stdout, out_dir_made, exc, all_good, evaluated,
          exit_code>>

recordVars == <<item, method, ret>>
formatterVars == <<fs, results, problem_solutions, final_solutions, csv_file, test_df,
                   out_file, out_dir_made>>
validatorVars == <<all_good, evaluated, exit_code>>

----------------------------------------------------------------------------
(* Bounds of the checked instances.                                        *)

\* fields present in a record given to extract_best_solution / get_solution_confidence
MaxPresent == 2

\* candidates in the list given to aggregate_solutions
MaxCandidates == 3

\* rows of the canonical table
MaxRows == 2

\* files in the results directory, over all method directories
MaxFiles == 2

\* records in one method's payload
MaxRecords == 2

----------------------------------------------------------------------------
(* Python strings and JSON values.                                         *)

Whitespace == {" "}

RECURSIVE lstrip(_)
lstrip(s) ==
    IF s # <<>> /\ Head(s) \in Whitespace THEN lstrip(Tail(s)) ELSE s

RECURSIVE rstrip(_)
rstrip(s) ==
    IF s # <<>> /\ s[Len(s)] \in Whitespace THEN rstrip(SubSeq(s, 1, Len(s) - 1)) ELSE s

\* str.strip()
strip(s) == rstrip(lstrip(s))

JStr(s) == [t |-> "str", s |-> s]
JInt(n) == [t |-> "int", n |-> n]
JFloat(x) == [t |-> "float", x |-> x]
JBool(b) == [t |-> "bool", b |-> b]
JNull == [t |-> "null"]
JList(l) == [t |-> "list", l |-> l]
JDict(d) == [t |-> "dict", d |-> d]

DigitChars == <<"0", "1", "2", "3", "4", "5", "6", "7", "8", "9">>

RECURSIVE Digits(_)
Digits(n) ==
    IF n < 10 THEN <<DigitChars[n + 1]>>
    ELSE Digits(n \div 10) \o <<DigitChars[(n % 10) + 1]>>

\* str(v) for a scalar JSON value v
str(v) ==
    CASE v.t = "str" -> v.s
      [] v.t = "int" -> Digits(v.n)
      [] v.t = "float" -> Digits(v.x \div 10) \o <<".">> \o Digits(v.x % 10)
      [] v.t = "bool" -> IF v.b THEN <<"T", "r", "u", "e">> ELSE <<"F", "a", "l", "s", "e">>
      [] v.t = "null" -> <<"N", "o", "n", "e">>

Return(v) == [kind |-> "return", value |-> v]
Raise(e) == [kind |-> "raise", exc |-> e]

IsDigits(s) == \A i \in 1..Len(s) : \E d \in 1..10 : s[i] = DigitChars[d]

DigitValue(c) == (CHOOSE d \in 1..10 : DigitChars[d] = c) - 1

RECURSIVE Number(_)
Number(s) ==
    IF s = <<>> THEN 0 ELSE 10 * Number(SubSeq(s, 1, Len(s) - 1)) + DigitValue(s[Len(s)])

\* float(s) for a string s: surrounding whitespace is dropped, then "d+", "d+." or
\* "d+.d" is read (in tenths); any other text of the model's alphabet is a ValueError
ParseFloat(s) ==
    LET u == strip(s)
        dots == {i \in 1..Len(u) : u[i] = "."}
        ip == IF dots = {} THEN u ELSE SubSeq(u, 1, (CHOOSE i \in dots : \A j \in dots : i <= j) - 1)
        fp == IF dots = {} THEN <<>> ELSE SubSeq(u, Len(ip) + 2, Len(u))
    IN  IF ip # <<>> /\ IsDigits(ip) /\ IsDigits(fp) /\ Len(fp) <= 1
        THEN Return(10 * Number(ip) + Number(fp))
        ELSE Raise("ValueError")

\* float(v)
float(v) ==
    CASE v.t = "int" -> Return(10 * v.n)
      [] v.t = "float" -> Return(v.x)
      [] v.t = "bool" -> Return(IF v.b THEN 10 ELSE 0)
      [] v.t = "str" -> ParseFloat(v.s)
      [] OTHER -> Raise("TypeError")

NoSolutionFound ==
    <<"N", "o", " ", "s", "o", "l", "u", "t", "i", "o", "n", " ", "f", "o", "u", "n", "d">>

\* line 20
Methods == <<"mcts_results", "cot_sc_results", "cot_greedy_results">>

----------------------------------------------------------------------------
(* extract_best_solution                                                   *)

solution_keys == <<"answer", "prediction", "output", "best_answer", "solution">>

RECURSIVE solution_scan(_, _)
solution_scan(it, i) ==
    IF i > Len(solution_keys)
    THEN IF "outputs" \in DOMAIN it /\ it["outputs"].t = "list" /\ Len(it["outputs"].l) > 0
         THEN str(it["outputs"].l[1])
         ELSE NoSolutionFound
    ELSE LET key == solution_keys[i]
         IN  IF key \in DOMAIN it
             THEN IF it[key].t = "list" /\ Len(it[key].l) > 0 THEN str(it[key].l[1])
                  ELSE IF it[key].t = "str" THEN it[key].s
                  ELSE solution_scan(it, i + 1)
             ELSE solution_scan(it, i + 1)

\* a slip of the scan: the first PRESENT key decides, usable or not
RECURSIVE first_present_scan(_, _)
first_present_scan(it, i) ==
    IF i > Len(solution_keys)
    THEN IF "outputs" \in DOMAIN it /\ it["outputs"].t = "list" /\ Len(it["outputs"].l) > 0
         THEN str(it["outputs"].l[1])
         ELSE NoSolutionFound
    ELSE LET key == solution_keys[i]
         IN  IF key \in DOMAIN it
             THEN IF it[key].t = "list" /\ Len(it[key].l) > 0 THEN str(it[key].l[1])
                  ELSE IF it[key].t = "str" THEN it[key].s
                  ELSE NoSolutionFound
             ELSE first_present_scan(it, i + 1)

extract_best_solution_first_present(it, m) == first_present_scan(it, 1)

extract_best_solution(it, m) == solution_scan(it, 1)

----------------------------------------------------------------------------
(* get_solution_confidence                                                 *)

confidence_keys == <<"confidence", "score", "value", "probability">>

method_defaults(m) ==
    CASE m = "mcts_results" -> 8
      [] m = "cot_sc_results" -> 7
      [] m = "cot_greedy_results" -> 6
      [] OTHER -> 5

RECURSIVE confidence_scan(_, _, _)
confidence_scan(it, m, i) ==
    IF i > Len(confidence_keys) THEN Return(method_defaults(m))
    ELSE LET key == confidence_keys[i]
         IN  IF key \in DOMAIN it
             THEN IF it[key].t \in {"int", "float", "bool"} THEN float(it[key])
                  ELSE IF it[key].t = "list" /\ Len(it[key].l) > 0 THEN float(it[key].l[1])
                  ELSE confidence_scan(it, m, i + 1)
             ELSE confidence_scan(it, m, i + 1)

get_solution_confidence(it, m) == confidence_scan(it, m, 1)

----------------------------------------------------------------------------
(* aggregate_solutions                                                     *)

\* lines 139-151: the groups of problem_map, each in the order of the input list
RECURSIVE group_by_problem(_, _, _)
group_by_problem(ps, i, problem_map) ==
    IF i > Len(ps) THEN problem_map
    ELSE LET problem == ps[i].problem
             entry == [solution |-> ps[i].solution, confidence |-> ps[i].confidence,
                       method |-> ps[i].method]
             known == IF problem \in DOMAIN problem_map THEN problem_map[problem] ELSE <<>>
         IN  group_by_problem(ps, i + 1,
                 [q \in DOMAIN problem_map \cup {problem} |->
                     IF q = problem THEN Append(known, entry) ELSE problem_map[q]])

\* max(solutions, key=confidence) kept by >= : the LAST of the largest wins
RECURSIVE max_scan_last(_, _, _)
max_scan_last(solutions, i, best) ==
    IF i > Len(solutions) THEN best
    ELSE max_scan_last(solutions, i + 1,
             IF solutions[i].confidence >= best.confidence THEN solutions[i] ELSE best)

max_by_confidence_last(solutions) == max_scan_last(solutions, 2, solutions[1])

\* Python's max(solutions, key=lambda x: x['confidence']): the running best is
\* replaced only by a strictly larger key
RECURSIVE max_scan(_, _, _)
max_scan(solutions, i, best) ==
    IF i > Len(solutions) THEN best
    ELSE max_scan(solutions, i + 1,
             IF solutions[i].confidence > best.confidence THEN solutions[i] ELSE best)

max_by_confidence(solutions) == max_scan(solutions, 2, solutions[1])

IsReal(c) == c.solution # NoSolutionFound

\* a variant that lets a real solution beat the fallback string whatever the confidence
aggregate_solutions_prefer_real(ps) ==
    LET problem_map == group_by_problem(ps, 1, <<>>)
    IN  [problem \in DOMAIN problem_map |->
            LET real == SelectSeq(problem_map[problem], IsReal)
            IN  max_by_confidence(IF real = <<>> THEN problem_map[problem] ELSE real).solution]

aggregate_solutions(ps) ==
    LET problem_map == group_by_problem(ps, 1, <<>>)
    IN  [problem \in DOMAIN problem_map |-> max_by_confidence(problem_map[problem]).solution]

----------------------------------------------------------------------------
(* load_game24_test_data and create_kaggle_submission                      *)

DummyPuzzles ==
    << <<"1", " ", "1", " ", "4", " ", "6">>,
       <<"1", " ", "1", " ", "1", "1", " ", "1", "1">>,
       <<"1", " ", "1", " ", "3", " ", "8">>,
       <<"1", " ", "1", " ", "1", " ", "8">>,
       <<"6", " ", "6", " ", "6", " ", "6">> >>

\* the DataFrame: the CSV's columns and rows, or the five built-in puzzles
load_game24_test_data(csv) ==
    IF csv.exists THEN [columns |-> csv.columns, rows |-> csv.rows]
    ELSE [columns |-> <<"Puzzles">>,
          rows |-> [k \in 1..Len(DummyPuzzles) |-> <<JStr(DummyPuzzles[k])>>]]

ColumnOf(columns, name) == CHOOSE c \in 1..Len(columns) : columns[c] = name

\* lines 193-211: the row's problem string
row_problem(columns, row) ==
    IF \E c \in 1..Len(columns) : columns[c] = "Puzzles"
    THEN strip(str(row[ColumnOf(columns, "Puzzles")]))
    ELSE strip(str(IF Len(row) > 1 THEN row[2] ELSE row[1]))

\* dict.get(problem, "No solution found")
get_or_default(d, key, default) == IF key \in DOMAIN d THEN d[key] ELSE default

\* a slip: the lookup uses the untrimmed cell
submission_rows_untrimmed(solutions, df) ==
    [k \in 1..Len(df.rows) |->
        LET raw == str(IF \E c \in 1..Len(df.columns) : df.columns[c] = "Puzzles"
                       THEN df.rows[k][ColumnOf(df.columns, "Puzzles")]
                       ELSE IF Len(df.rows[k]) > 1 THEN df.rows[k][2] ELSE df.rows[k][1])
        IN  [id |-> k - 1, problem |-> strip(raw),
             solution |-> get_or_default(solutions, raw, NoSolutionFound)]]

\* lines 190-211: one row per row of the table, idx being the RangeIndex 0..N-1
submission_rows(solutions, df) ==
    [k \in 1..Len(df.rows) |->
        LET problem == row_problem(df.columns, df.rows[k])
        IN  [id |-> k - 1, problem |-> problem,
             solution |-> get_or_default(solutions, problem, NoSolutionFound)]]

\* line 221
solved_count(rows) == Cardinality({k \in 1..Len(rows) : rows[k].solution # NoSolutionFound})

----------------------------------------------------------------------------
(* extract_problem_solutions                                               *)

\* 'question' in item: a dict is asked for the key; a number, a boolean or null is
\* not iterable; a string or a list of the model never holds "question"
has_question(it) ==
    CASE it.t = "dict" -> Return("question" \in DOMAIN it.d)
      [] it.t \in {"int", "float", "bool", "null"} -> Raise("TypeError")
      [] OTHER -> Return(FALSE)

\* lines 62-71 (and 77-85): the candidate of one record that has a question
candidate(it, m) ==
    IF it.d["question"].t # "str" THEN Raise("AttributeError")
    ELSE LET confidence == get_solution_confidence(it.d, m)
         IN  IF confidence.kind = "raise" THEN confidence
             ELSE Return([problem |-> strip(it.d["question"].s),
                          solution |-> extract_best_solution(it.d, m),
                          method |-> m,
                          confidence |-> confidence.value])

\* the loop over the records of one payload, appending to the list so far
RECURSIVE extract_items(_, _, _, _)
extract_items(items, i, m, acc) ==
    IF i > Len(items) THEN Return(acc)
    ELSE LET has == has_question(items[i])
         IN  IF has.kind = "raise" THEN has
             ELSE IF ~has.value THEN extract_items(items, i + 1, m, acc)
             ELSE LET c == candidate(items[i], m)
                  IN  IF c.kind = "raise" THEN c
                      ELSE extract_items(items, i + 1, m, Append(acc, c.value))

\* lines 59-85: one method's payload (line 72 is read as isinstance(data, dict))
extract_payload(data, m, acc) ==
    IF data.t = "list" THEN extract_items(data.l, 1, m, acc)
    ELSE IF data.t = "dict"
         THEN IF "results" \in DOMAIN data.d
              THEN IF data.d["results"].t = "list"
                   THEN extract_items(data.d["results"].l, 1, m, acc)
                   ELSE Raise("TypeError")    \* iterating null or a number
              ELSE Return(acc)
    ELSE Return(acc)

\* the loop of line 58 over results.items(), in insertion order
RECURSIVE extract_scan(_, _, _)
extract_scan(res, i, acc) ==
    IF i > Len(res) THEN Return(acc)
    ELSE LET r == extract_payload(res[i][2], res[i][1], acc)
         IN  IF r.kind = "raise" THEN r ELSE extract_scan(res, i + 1, r.value)

extract_problem_solutions(res) == extract_scan(res, 1, <<>>)

----------------------------------------------------------------------------
(* load_evaluation_results                                                 *)

\* one line of a file: a complete JSON document, text that is no JSON, or blank
Doc(d) == [line |-> "doc", doc |-> d]
Bad == [line |-> "bad"]
Blank == [line |-> "blank"]

IsBlank(l) == l.line = "blank"
NotBlank(l) == ~IsBlank(l)

\* json.load(f): the file is one document, white space around it allowed
json_load(lines) ==
    LET text == SelectSeq(lines, NotBlank)
    IN  IF Len(text) = 1 /\ text[1].line = "doc" THEN Return(text[1].doc)
        ELSE Raise("JSONDecodeError")

\* lines 40-43: json.loads(line.strip()) of every line, collected
jsonl_load(lines) ==
    IF \A i \in 1..Len(lines) : lines[i].line = "doc"
    THEN Return(JList([i \in 1..Len(lines) |-> lines[i].doc]))
    ELSE Raise("JSONDecodeError")

HasExt(e, f) == f.ext = e
IsJson(f) == HasExt("json", f)
IsJsonl(f) == HasExt("jsonl", f)

\* method_dir.glob("*.json"), glob("*.jsonl"): the matching files in listing order
glob_json(files) == SelectSeq(files, IsJson)
glob_jsonl(files) == SelectSeq(files, IsJsonl)

\* a slip: no break after a file loaded, so the last file that parses wins
RECURSIVE first_loaded_no_break(_, _, _, _)
first_loaded_no_break(files, i, jsonl, found) ==
    IF i > Len(files) THEN found
    ELSE LET r == IF jsonl THEN jsonl_load(files[i].lines) ELSE json_load(files[i].lines)
         IN  first_loaded_no_break(files, i + 1, jsonl, IF r.kind = "return" THEN r ELSE found)

first_loaded_last(files, i, jsonl) ==
    first_loaded_no_break(files, i, jsonl, Raise("JSONDecodeError"))

\* the loops of lines 26-34 and 38-48: the first file that loads, or a raise when none does
RECURSIVE first_loaded(_, _, _)
first_loaded(files, i, jsonl) ==
    IF i > Len(files) THEN Raise("JSONDecodeError")
    ELSE LET r == IF jsonl THEN jsonl_load(files[i].lines) ELSE json_load(files[i].lines)
         IN  IF r.kind = "return" THEN r ELSE first_loaded(files, i + 1, jsonl)

first_json(files) == first_loaded(glob_json(files), 1, FALSE)

first_jsonl(files) == first_loaded(glob_jsonl(files), 1, TRUE)

\* lines 23-48: one method
load_method(dir, m, res) ==
    IF ~dir.exists THEN res
    ELSE LET j == first_json(dir.files)
         IN  IF j.kind = "return" THEN Append(res, <<m, j.value>>)
             ELSE LET l == first_jsonl(dir.files)
                  IN  IF l.kind = "return" THEN Append(res, <<m, l.value>>) ELSE res

RECURSIVE load_scan(_, _, _)
load_scan(dirs, i, res) ==
    IF i > Len(Methods) THEN res
    ELSE load_scan(dirs, i + 1, load_method(dirs[i], Methods[i], res))

\* the mapping, as the sequence of its items in insertion order
load_evaluation_results(dirs) == load_scan(dirs, 1, <<>>)

----------------------------------------------------------------------------
(* Records handed to the two field readers, and the two calls.             *)

MethodNames == {Methods[i] : i \in 1..Len(Methods)} \cup {"other_results"}

sX == <<"X">>
sY == <<"Y">>

SolutionFields == {solution_keys[i] : i \in 1..Len(solution_keys)} \cup {"outputs"}

SolutionValues ==
    {JStr(sX), JStr(sY), JList(<<>>), JList(<<JStr(<<"Z">>)>>),
     JList(<<JInt(24), JStr(sX)>>), JInt(3), JNull}

ConfidenceFields == {confidence_keys[i] : i \in 1..Len(confidence_keys)}

ConfidenceValues ==
    {JInt(1), JFloat(9), JBool(TRUE), JStr(<<"h", "i">>), JNull, JList(<<>>),
     JList(<<JFloat(3), JFloat(9)>>), JList(<<JStr(<<" ", "0", ".", "4">>)>>),
     JList(<<JStr(<<"a", "b", "c">>)>>), JList(<<JNull>>)}

\* the dicts with at most MaxPresent of the fields, each holding one of the values
Items(fields, values) ==
    UNION {[K -> values] : K \in {k \in SUBSET fields : Cardinality(k) <= MaxPresent}}

NotWritten == [written |-> FALSE, rows |-> <<>>]

FormatterIdle ==
    /\ fs = <<>> /\ results = <<>> /\ problem_solutions = <<>> /\ final_solutions = <<>>
    /\ csv_file = <<>> /\ test_df = <<>> /\ out_file = NotWritten /\ out_dir_made = FALSE

ValidatorIdle == all_good = TRUE /\ evaluated = <<>> /\ exit_code = -1

RecordIdle == item = <<>> /\ method = "" /\ ret = <<>>

InitBestSolution ==
    /\ pc = "extract_best_solution"
    /\ item \in Items(SolutionFields, SolutionValues)
    /\ method \in {Methods[1], "other_results"}
    /\ ret = <<>>
    /\ stdout = <<>> /\ exc = "none"
    /\ FormatterIdle /\ ValidatorIdle

CallExtractBestSolution ==
    /\ pc = "extract_best_solution"
    /\ ret' = Return(extract_best_solution(item, method))
    /\ pc' = "returned"
    /\ UNCHANGED <<item, method, stdout, exc, formatterVars, validatorVars>>

SpecBestSolution == InitBestSolution /\ [][CallExtractBestSolution]_vars

InitConfidence ==
    /\ pc = "get_solution_confidence"
    /\ item \in Items(ConfidenceFields, ConfidenceValues)
    /\ method \in MethodNames
    /\ ret = <<>>
    /\ stdout = <<>> /\ exc = "none"
    /\ FormatterIdle /\ ValidatorIdle

CallGetSolutionConfidence ==
    /\ pc = "get_solution_confidence"
    /\ ret' = get_solution_confidence(item, method)
    /\ pc' = "returned"
    /\ UNCHANGED <<item, method, stdout, exc, formatterVars, validatorVars>>

SpecConfidence == InitConfidence /\ [][CallGetSolutionConfidence]_vars

----------------------------------------------------------------------------
(* format_kaggle_submission.main, one action per statement.                *)

Say(m) == [msg |-> m, solved |-> 0, total |-> 0]

\* line 236
LoadEvaluationResults ==
    /\ pc = "load"
    /\ results' = load_evaluation_results(fs)
    /\ pc' = "loaded"
    /\ UNCHANGED <<fs, problem_solutions, final_solutions, csv_file, test_df, out_file,
                   out_dir_made, stdout, exc, recordVars, validatorVars>>

\* a slip: the message is printed but the return is missing
NoResultsNoReturn ==
    /\ pc = "loaded"
    /\ results = <<>>
    /\ stdout' = Append(stdout, Say("No evaluation results found"))
    /\ problem_solutions' = <<>>
    /\ pc' = "extracted"
    /\ UNCHANGED <<fs, results, final_solutions, csv_file, test_df, out_file, out_dir_made,
                   exc, recordVars, validatorVars>>

\* lines 238-240
NoResultsReturn ==
    /\ pc = "loaded"
    /\ results = <<>>
    /\ stdout' = Append(stdout, Say("No evaluation results found"))
    /\ pc' = "exit"
    /\ UNCHANGED <<formatterVars, exc, recordVars, validatorVars>>

\* line 243
ExtractProblemSolutions ==
    /\ pc = "loaded"
    /\ results # <<>>
    /\ LET r == extract_problem_solutions(results)
       IN  IF r.kind = "raise"
           THEN /\ exc' = r.exc
                /\ pc' = "exit"
                /\ UNCHANGED problem_solutions
           ELSE /\ problem_solutions' = r.value
                /\ pc' = "extracted"
                /\ UNCHANGED exc
    /\ UNCHANGED <<fs, results, final_solutions, csv_file, test_df, out_file,
                   out_dir_made, stdout, recordVars, validatorVars>>

\* line 248
AggregateSolutions ==
    /\ pc = "extracted"
    /\ final_solutions' = aggregate_solutions(problem_solutions)
    /\ pc' = "aggregated"
    /\ UNCHANGED <<fs, results, problem_solutions, csv_file, test_df, out_file,
                   out_dir_made, stdout, exc, recordVars, validatorVars>>

\* line 253
MakeOutputDir ==
    /\ pc = "aggregated"
    /\ out_dir_made' = TRUE
    /\ pc' = "create_submission"
    /\ UNCHANGED <<fs, results, problem_solutions, final_solutions, csv_file, test_df,
                   out_file, stdout, exc, recordVars, validatorVars>>

\* line 256: the whole of create_kaggle_submission.  With no row, the DataFrame
\* built from the empty list has no 'solution' column and line 221 raises KeyError
\* after the file was written.
CreateKaggleSubmission ==
    /\ pc = "create_submission"
    /\ LET df == load_game24_test_data(csv_file)
           rows == submission_rows(final_solutions, df)
           warned == IF csv_file.exists THEN stdout
                     ELSE Append(stdout, Say("Warning: Game24 CSV file not found"))
           saved == Append(warned, Say("Kaggle submission saved"))
       IN  /\ test_df' = df
           /\ out_file' = [written |-> TRUE, rows |-> rows]
           /\ IF Len(rows) = 0
              THEN /\ stdout' = saved
                   /\ exc' = "KeyError"
                   /\ pc' = "exit"
              ELSE /\ stdout' = Append(saved, [msg |-> "Solutions found",
                                               solved |-> solved_count(rows),
                                               total |-> Len(rows)])
                   /\ pc' = "created"
                   /\ UNCHANGED exc
    /\ UNCHANGED <<fs, results, problem_solutions, final_solutions, csv_file,
                   out_dir_made, recordVars, validatorVars>>

\* line 258
MainDone ==
    /\ pc = "created"
    /\ stdout' = Append(stdout, Say("Done!"))
    /\ pc' = "exit"
    /\ UNCHANGED <<formatterVars, exc, recordVars, validatorVars>>

----------------------------------------------------------------------------
(* The aggregator and the submission builder on bounded inputs.            *)

SeqsUpTo(S, n) == UNION {[1..k -> S] : k \in 0..n}

P1 == DummyPuzzles[1]
P2 == <<"q">>

\* candidates as the extractor makes them: trimmed problem, solution text or the
\* fallback string, and a confidence
Candidates ==
    {[problem |-> p, solution |-> sol, method |-> IF c = 8 THEN Methods[1] ELSE Methods[3],
      confidence |-> c] : p \in {P1, P2}, sol \in {sX, sY, NoSolutionFound}, c \in {6, 8}}

NoCsv == [exists |-> FALSE, columns |-> <<>>, rows |-> <<>>]

Csv(columns, rows) == [exists |-> TRUE, columns |-> columns, rows |-> rows]

SmallCsvFiles ==
    {NoCsv,
     Csv(<<"Rank", "Puzzles">>,
         << <<JInt(1), JStr(P2)>>, <<JInt(2), JStr(<<" ">> \o P1)>>, <<JInt(3), JStr(P2)>> >>)}

InitAggregate ==
    /\ pc = "extracted"
    /\ problem_solutions \in SeqsUpTo(Candidates, MaxCandidates)
    /\ csv_file \in SmallCsvFiles
    /\ fs = <<>> /\ results = <<>> /\ final_solutions = <<>> /\ test_df = <<>>
    /\ out_file = NotWritten /\ out_dir_made = FALSE
    /\ stdout = <<>> /\ exc = "none"
    /\ RecordIdle /\ ValidatorIdle

NextAggregate == AggregateSolutions \/ MakeOutputDir \/ CreateKaggleSubmission \/ MainDone

SpecAggregate == InitAggregate /\ [][NextAggregate]_vars

sP == <<"p">>
sPadded == <<" ", "p", " ">>

Cells == {JStr(sP), JStr(sPadded), JInt(7)}

Headers == {<<"Puzzles">>, <<"Problem">>, <<"Rank", "Puzzles">>, <<"Puzzles", "Rank">>,
            <<"Rank", "Problem">>}

CsvFiles ==
    {NoCsv} \cup
    UNION {{Csv(h, rows) : rows \in SeqsUpTo([1..Len(h) -> Cells], MaxRows)} : h \in Headers}

Mappings == UNION {[K -> {sX, sY}] : K \in SUBSET {sP, sPadded, <<"7">>}}

InitSubmission ==
    /\ pc = "create_submission"
    /\ final_solutions \in Mappings
    /\ csv_file \in CsvFiles
    /\ fs = <<>> /\ results = <<>> /\ problem_solutions = <<>> /\ test_df = <<>>
    /\ out_file = NotWritten /\ out_dir_made = TRUE
    /\ stdout = <<>> /\ exc = "none"
    /\ RecordIdle /\ ValidatorIdle

SpecSubmission == InitSubmission /\ [][CreateKaggleSubmission]_vars

----------------------------------------------------------------------------
(* The loader, the extractor and main on bounded inputs.                   *)

NoDir == [exists |-> FALSE, files |-> <<>>]

File(ext, lines) == [ext |-> ext, lines |-> lines]

\* the files, in listing order, that `where` puts into method directory m
RECURSIVE FilesIn(_, _, _, _)
FilesIn(files, where, m, i) ==
    IF i > Len(files) THEN <<>>
    ELSE (IF where[i] = m THEN <<files[i]>> ELSE <<>>) \o FilesIn(files, where, m, i + 1)

\* the results directory whose method directories `ex` exist and hold the files
\* of fl as `where` places them
FileSystem(fl, where, ex) ==
    [m \in 1..Len(Methods) |->
        IF m \in ex THEN [exists |-> TRUE, files |-> FilesIn(fl, where, m, 1)] ELSE NoDir]

\* fs is a results directory holding at most n files of F in all
IsFileSystem(F, n) ==
    \E fl \in SeqsUpTo(F, n) :
        \E where \in [1..Len(fl) -> 1..Len(Methods)] :
            \E ex \in SUBSET (1..Len(Methods)) :
                /\ \A i \in 1..Len(fl) : where[i] \in ex
                /\ fs = FileSystem(fl, where, ex)

DocA == JStr(<<"a">>)
DocB == JStr(<<"b">>)

LoaderFiles ==
    {File(e, l) : e \in {"json", "jsonl"},
                  l \in {<<>>, <<Doc(DocA)>>, <<Bad>>, <<Doc(DocA), Doc(DocB)>>,
                         <<Doc(DocA), Bad>>, <<Doc(DocB), Blank>>}}
    \cup {File("txt", <<Doc(DocA)>>)}

InitLoader ==
    /\ pc = "load"
    /\ IsFileSystem(LoaderFiles, MaxFiles)
    /\ results = <<>> /\ problem_solutions = <<>> /\ final_solutions = <<>>
    /\ csv_file = NoCsv /\ test_df = <<>> /\ out_file = NotWritten /\ out_dir_made = FALSE
    /\ stdout = <<>> /\ exc = "none"
    /\ RecordIdle /\ ValidatorIdle

SpecLoader == InitLoader /\ [][LoadEvaluationResults]_vars

Answer1146 == <<"(", "6", "-", "4", ")", "*", "(", "1", "+", "1", ")">>

\* {"question": "1 1 4 6", "answer": "(6-4)*(1+1)"}
RecSolved == JDict([k \in {"question", "answer"} |->
                      IF k = "question" THEN JStr(P1) ELSE JStr(Answer1146)])
\* {"question": " q ", "confidence": 0.9}
RecUnsolved == JDict([k \in {"question", "confidence"} |->
                        IF k = "question" THEN JStr(<<" ">> \o P2 \o <<" ">>) ELSE JFloat(9)])
\* {"answer": "X"}
RecNoQuestion == JDict([k \in {"answer"} |-> JStr(sX)])
\* {"question": "q", "value": [null]}
RecBadValue == JDict([k \in {"question", "value"} |->
                        IF k = "question" THEN JStr(P2) ELSE JList(<<JNull>>)])

Records == {RecSolved, RecUnsolved, RecNoQuestion, RecBadValue}

Wrapped(l) == JDict([k \in {"results"} |-> JList(l)])

Payloads ==
    {JList(l) : l \in SeqsUpTo(Records, MaxRecords)}
    \cup {Wrapped(l) : l \in SeqsUpTo(Records, MaxRecords)}
    \cup {JDict([k \in {"data"} |-> JList(<<RecSolved>>)]), JNull}

\* the mappings the loader can return: some of the methods, in the loader's order
RECURSIVE ResultsFrom(_, _)
ResultsFrom(choice, i) ==
    IF i > Len(Methods) THEN <<>>
    ELSE (IF choice[i] = JBool(FALSE) THEN <<>> ELSE << <<Methods[i], choice[i]>> >>)
         \o ResultsFrom(choice, i + 1)

InitExtract ==
    /\ pc = "loaded"
    /\ \E choice \in [1..Len(Methods) -> Payloads \cup {JBool(FALSE)}] :
          results = ResultsFrom(choice, 1)
    /\ results # <<>>
    /\ fs = <<>> /\ problem_solutions = <<>> /\ final_solutions = <<>>
    /\ csv_file = NoCsv /\ test_df = <<>> /\ out_file = NotWritten /\ out_dir_made = FALSE
    /\ stdout = <<>> /\ exc = "none"
    /\ RecordIdle /\ ValidatorIdle

SpecExtract == InitExtract /\ [][ExtractProblemSolutions]_vars

\* mcts_results/out.json of the round trip, a two-line JSON-lines file, a file that
\* is no JSON, and a file whose record makes the confidence reader raise
MainFiles ==
    {File("json", <<Doc(Wrapped(<<RecSolved>>))>>),
     File("jsonl", <<Doc(RecUnsolved), Doc(JDict([k \in {"question"} |-> JStr(P1)]))>>),
     File("json", <<Bad>>),
     File("jsonl", <<Doc(RecSolved), Bad>>),
     File("json", <<Doc(JList(<<RecBadValue>>))>>)}

Init ==
    /\ pc = "load"
    /\ IsFileSystem(MainFiles, MaxFiles)
    /\ csv_file \in SmallCsvFiles
    /\ results = <<>> /\ problem_solutions = <<>> /\ final_solutions = <<>>
    /\ test_df = <<>> /\ out_file = NotWritten /\ out_dir_made = FALSE
    /\ stdout = <<>> /\ exc = "none"
    /\ RecordIdle /\ ValidatorIdle

Next ==
    \/ LoadEvaluationResults
    \/ NoResultsReturn
    \/ ExtractProblemSolutions
    \/ AggregateSolutions
    \/ MakeOutputDir
    \/ CreateKaggleSubmission
    \/ MainDone

Spec == Init /\ [][Next]_vars

----------------------------------------------------------------------------
(* validate_setup.main                                                     *)

Dir(path) == [kind |-> "dir", path |-> path]
Fil(path) == [kind |-> "file", path |-> path]

\* lines 36-52, in order
Checklist ==
    <<Dir("models/policy/llama2-7b-game24-policy-hf"),
      Dir("models/value/llama2-7b-game24-value"),
      Dir("models/ct2_cache/llama2-7b-game24-policy-ct2"),
      Fil("models/policy/llama2-7b-game24-policy-hf/config.json"),
      Fil("models/value/llama2-7b-game24-value/config.json"),
      Fil("models/ct2_cache/llama2-7b-game24-policy-ct2/config.json"),
      Fil("setup_game24_evaluation.sh"),
      Fil("evaluate_game24.sh"),
      Fil("format_kaggle_submission.py"),
      Fil("tsllm/envs/game24/24.csv"),
      Fil("tsllm/envs/game24/env.py")>>

\* lines 68, 75, 82, 89, in order
Imports == <<"torch", "ctranslate2", "transformers", "tsllm.envs.game24.env">>

\* entries 4-6 are the config.json inside the directories of entries 1-3
ParentOf(i) == IF i \in 4..6 THEN i - 3 ELSE 0

\* what the path of entry i can be on disk, given the entries already looked at:
\* nothing exists inside a path that is not a directory, and the path of a
\* directory entry may also be taken by a plain file
OnDisk(i, seen) ==
    IF Checklist[i].kind = "dir" THEN {"dir", "file", "missing"}
    ELSE IF ParentOf(i) # 0 /\ seen[ParentOf(i)].found # "dir" THEN {"missing"}
    ELSE {"file", "missing"}

\* check_directory_exists: Path.is_dir()
check_directory_exists(found) == found = "dir"

\* check_file_exists: Path.exists()
check_file_exists(found) == found # "missing"

Mark(ok, what) == [mark |-> IF ok THEN "pass" ELSE "fail", what |-> what]

InitValidator ==
    /\ pc = "checklist"
    /\ all_good = TRUE
    /\ evaluated = <<>>
    /\ exit_code = -1
    /\ stdout = <<>> /\ exc = "none"
    /\ RecordIdle /\ FormatterIdle

\* one statement of lines 36-52: all_good &= check_..._exists(path, description)
CheckPath ==
    /\ pc = "checklist"
    /\ LET i == Len(evaluated) + 1
       IN  \E found \in OnDisk(i, evaluated) :
              LET ok == IF Checklist[i].kind = "dir" THEN check_directory_exists(found)
                        ELSE check_file_exists(found)
              IN  /\ evaluated' = Append(evaluated,
                          [check |-> Checklist[i].path, found |-> found, ok |-> ok])
                  /\ stdout' = Append(stdout, Mark(ok, Checklist[i].path))
                  /\ all_good' = (all_good /\ ok)
                  /\ pc' = IF i = Len(Checklist) THEN "report_files" ELSE "checklist"
    /\ UNCHANGED <<exit_code, exc, recordVars, formatterVars>>

\* a slip: no return after the files report
ReportFilesNoReturn ==
    /\ pc = "report_files"
    /\ stdout' = Append(stdout, Mark(all_good, "files"))
    /\ pc' = "imports"
    /\ UNCHANGED <<all_good, evaluated, exit_code, exc, recordVars, formatterVars>>

\* lines 56-63
ReportFiles ==
    /\ pc = "report_files"
    /\ stdout' = Append(stdout, Mark(all_good, "files"))
    /\ IF all_good
       THEN pc' = "imports" /\ UNCHANGED exit_code
       ELSE pc' = "exit" /\ exit_code' = 1
    /\ UNCHANGED <<all_good, evaluated, exc, recordVars, formatterVars>>

\* one try block of lines 67-93: the import succeeds, raises ImportError (caught),
\* or raises something else, which nothing catches: the interpreter exits with 1
TryImport ==
    /\ pc = "imports"
    /\ LET i == Len(evaluated) - Len(Checklist) + 1
       IN  \E outcome \in {"imported", "ImportError", "OSError"} :
              /\ evaluated' = Append(evaluated,
                      [check |-> Imports[i], found |-> outcome, ok |-> outcome = "imported"])
              /\ IF outcome = "OSError"
                 THEN /\ exc' = outcome
                      /\ exit_code' = 1
                      /\ pc' = "exit"
                      /\ UNCHANGED <<stdout, all_good>>
                 ELSE /\ stdout' = Append(stdout, Mark(outcome = "imported", Imports[i]))
                      /\ all_good' = IF outcome = "imported" THEN all_good ELSE FALSE
                      /\ pc' = IF i = Len(Imports) THEN "report_imports" ELSE "imports"
                      /\ UNCHANGED <<exc, exit_code>>
    /\ UNCHANGED <<recordVars, formatterVars>>

\* lines 97-125: the smoke test of judge_correct and the exit status; whatever the
\* test does (returns true, returns false, raises), line 125 returns 0
ReportImports ==
    /\ pc = "report_imports"
    /\ IF all_good
       THEN \E smoke \in {"true", "false", "raised"} :
              /\ evaluated' = Append(evaluated,
                      [check |-> "judge_correct", found |-> smoke, ok |-> smoke = "true"])
              /\ stdout' = stdout \o <<Mark(TRUE, "validation"), Mark(smoke = "true", "judge_correct")>>
              /\ exit_code' = 0
       ELSE /\ stdout' = Append(stdout, Mark(FALSE, "validation"))
            /\ exit_code' = 1
            /\ UNCHANGED evaluated
    /\ pc' = "exit"
    /\ UNCHANGED <<all_good, exc, recordVars, formatterVars>>

NextValidator == CheckPath \/ ReportFiles \/ TryImport \/ ReportImports

SpecValidator == InitValidator /\ [][NextValidator]_vars

----------------------------------------------------------------------------
(* C5 and C6.                                                              *)

Usable(v) == (v.t = "list" /\ Len(v.l) > 0) \/ v.t = "str"

ValueOf(v) == IF v.t = "str" THEN v.s ELSE str(v.l[1])

Least(S) == CHOOSE i \in S : \A j \in S : i <= j

PresentIdx(it) == {i \in 1..Len(solution_keys) : solution_keys[i] \in DOMAIN it}

UsableIdx(it) == {i \in PresentIdx(it) : Usable(it[solution_keys[i]])}

FromOutputs(it) ==
    IF "outputs" \in DOMAIN it /\ it["outputs"].t = "list" /\ Len(it["outputs"].l) > 0
    THEN str(it["outputs"].l[1])
    ELSE NoSolutionFound

\* C5 as claimed: the first PRESENT priority field decides the solution (its first
\* element if it is a non-empty sequence, itself if it is a string, "No solution
\* found" otherwise), and "outputs" is consulted only when no priority field is present.
C5_FirstPresentDecides ==
    pc = "returned" =>
        ret = Return(IF PresentIdx(item) = {} THEN FromOutputs(item)
                     ELSE LET v == item[solution_keys[Least(PresentIdx(item))]]
                          IN  IF Usable(v) THEN ValueOf(v) ELSE NoSolutionFound)

\* C5 amended: the first priority field that is present AND holds a non-empty
\* sequence or a string decides the solution; a present field holding anything else
\* is passed over; "outputs" is consulted exactly when no priority field holds such
\* a value, and the result is "No solution found" otherwise.
C5_FirstUsableDecides ==
    pc = "returned" =>
        ret = Return(IF UsableIdx(item) = {} THEN FromOutputs(item)
                     ELSE ValueOf(item[solution_keys[Least(UsableIdx(item))]]))

\* the case of C5: "answer" is present but empty, and "prediction" decides
C5_Witness ==
    /\ pc = "returned"
    /\ DOMAIN item = {"answer", "prediction"}
    /\ item["answer"] = JList(<<>>)
    /\ item["prediction"] = JStr(sY)
    /\ ret = Return(sY)

ConfPresentIdx(it) == {i \in 1..Len(confidence_keys) : confidence_keys[i] \in DOMAIN it}

\* C6 as claimed, in the parts that leave no room for reading: the call never
\* raises; with none of the four fields present the result is the method's default
\* (0.8, 0.7, 0.6, else 0.5); a number in the first present field is the result.
C6_ConfidenceNeverRaises ==
    pc = "returned" =>
        /\ ret.kind = "return"
        /\ ConfPresentIdx(item) = {} =>
              ret = Return(CASE method = "mcts_results" -> 8
                             [] method = "cot_sc_results" -> 7
                             [] method = "cot_greedy_results" -> 6
                             [] OTHER -> 5)
        /\ ConfPresentIdx(item) # {} =>
              LET v == item[confidence_keys[Least(ConfPresentIdx(item))]]
              IN  v.t \in {"int", "float"} => ret = float(v)

----------------------------------------------------------------------------
(* C1, C10 (under SpecAggregate) and C2 (under SpecSubmission).            *)

Aggregated == pc \in {"aggregated", "create_submission", "created", "exit"}

\* C1: the mapping has exactly the distinct problems of the list as keys; the
\* entry of P is the solution of the candidate of P whose confidence is >= that of
\* every candidate of P and that comes first among those of that confidence; the
\* empty list gives the empty mapping.
C1_AggregateFirstMax ==
    Aggregated =>
        LET L == problem_solutions
            F == final_solutions
        IN  /\ DOMAIN F = {L[i].problem : i \in 1..Len(L)}
            /\ \A p \in DOMAIN F :
                  \E i \in 1..Len(L) :
                      /\ L[i].problem = p
                      /\ F[p] = L[i].solution
                      /\ \A j \in 1..Len(L) :
                            L[j].problem = p =>
                                /\ L[i].confidence >= L[j].confidence
                                /\ L[j].confidence = L[i].confidence => i <= j
            /\ L = <<>> => F = <<>>

\* the case of C1: two candidates of one problem tie at the largest confidence with
\* different solutions, a third is smaller, and the earlier of the two is chosen
C1_Witness ==
    /\ pc = "aggregated"
    /\ Len(problem_solutions) = 3
    /\ \A i \in 1..3 : problem_solutions[i].problem = P1
    /\ problem_solutions[1].confidence < problem_solutions[2].confidence
    /\ problem_solutions[2].confidence = problem_solutions[3].confidence
    /\ problem_solutions[2].solution # problem_solutions[3].solution
    /\ final_solutions[P1] = problem_solutions[2].solution

\* candidate i carries the fallback string and beats (or ties with and precedes)
\* every candidate of its problem that carries a real solution
FallbackWins(L, i) ==
    /\ L[i].solution = NoSolutionFound
    /\ \A j \in 1..Len(L) :
          (L[j].problem = L[i].problem /\ L[j].solution # NoSolutionFound) =>
              \/ L[i].confidence > L[j].confidence
              \/ L[i].confidence = L[j].confidence /\ i < j

FallbackProblems(L) == {L[i].problem : i \in {k \in 1..Len(L) : FallbackWins(L, k)}}

\* C10: a candidate carrying "No solution found" competes like any other: when it
\* wins on confidence and order, the mapping holds the fallback string for its
\* problem, so does every submission row of that problem, and the printed count of
\* solved rows leaves those rows out.
C10_FallbackCompetes ==
    Aggregated =>
        LET L == problem_solutions
            rows == out_file.rows
        IN  /\ \A p \in FallbackProblems(L) : final_solutions[p] = NoSolutionFound
            /\ out_file.written =>
                  \A k \in 1..Len(rows) :
                      rows[k].problem \in FallbackProblems(L) => rows[k].solution = NoSolutionFound
            /\ \A n \in 1..Len(stdout) :
                  stdout[n].msg = "Solutions found" =>
                      stdout[n].solved <= stdout[n].total
                          - Cardinality({k \in 1..Len(rows) : rows[k].problem \in FallbackProblems(L)})

\* the case of C10: for "1 1 4 6" the fallback candidate has confidence 0.8, a real
\* solution has 0.6, and the written row holds the fallback and is not counted
C10_Witness ==
    /\ pc = "exit"
    /\ Len(problem_solutions) = 2
    /\ problem_solutions[1] = [problem |-> P1, solution |-> sX, method |-> Methods[3], confidence |-> 6]
    /\ problem_solutions[2] = [problem |-> P1, solution |-> NoSolutionFound, method |-> Methods[1], confidence |-> 8]
    /\ out_file.written
    /\ \E k \in 1..Len(out_file.rows) :
          out_file.rows[k].problem = P1 /\ out_file.rows[k].solution = NoSolutionFound
    /\ \E n \in 1..Len(stdout) : stdout[n].msg = "Solutions found" /\ stdout[n].solved = 0

\* the canonical list: the rows of the CSV, or the five built-in puzzles
CanonicalRows == IF csv_file.exists THEN csv_file.rows ELSE [k \in 1..5 |-> <<JStr(DummyPuzzles[k])>>]

CanonicalColumns == IF csv_file.exists THEN csv_file.columns ELSE <<"Puzzles">>

\* C2: exactly N rows in the order of the canonical list, ids 0..N-1, row k's
\* problem the trimmed k-th canonical problem, its solution the mapping's entry
\* for that problem or exactly "No solution found".
C2_SubmissionComplete ==
    pc # "create_submission" =>
        LET rows == out_file.rows
            F == final_solutions
        IN  /\ out_file.written
            /\ Len(rows) = Len(CanonicalRows)
            /\ \A k \in 1..Len(rows) :
                  /\ rows[k].id = k - 1
                  /\ k > 1 => rows[k].id > rows[k - 1].id
                  /\ \E c \in 1..Len(CanonicalColumns) :
                        /\ \/ CanonicalColumns[c] = "Puzzles"
                           \/ /\ \A d \in 1..Len(CanonicalColumns) : CanonicalColumns[d] # "Puzzles"
                              /\ c = IF Len(CanonicalColumns) > 1 THEN 2 ELSE 1
                        /\ rows[k].problem = strip(str(CanonicalRows[k][c]))
                  /\ rows[k].problem \in DOMAIN F => rows[k].solution = F[rows[k].problem]
                  /\ rows[k].problem \notin DOMAIN F => rows[k].solution = NoSolutionFound

\* the case of C2: two rows, the first a padded puzzle found in the mapping after
\* trimming, the second a puzzle the mapping lacks
C2_Witness ==
    /\ pc = "created"
    /\ csv_file.exists /\ csv_file.columns = <<"Rank", "Puzzles">>
    /\ Len(out_file.rows) = 2
    /\ csv_file.rows[1][2] = JStr(sPadded)
    /\ out_file.rows[1] = [id |-> 0, problem |-> sP, solution |-> sY]
    /\ out_file.rows[2] = [id |-> 1, problem |-> <<"7">>, solution |-> NoSolutionFound]

----------------------------------------------------------------------------
(* C7 (under SpecLoader), C9 (under SpecExtract) and C8 (under Spec).      *)

ParsesAsJson(f) == f.ext = "json" /\ json_load(f.lines).kind = "return"

EveryLineParses(f) == f.ext = "jsonl" /\ \A i \in 1..Len(f.lines) : f.lines[i].line = "doc"

Keys(res) == {res[i][1] : i \in 1..Len(res)}

PayloadOf(res, m) == res[CHOOSE i \in 1..Len(res) : res[i][1] = m][2]

\* C7: per method, the payload is the content of the first *.json file of the
\* listing that parses; only when none does, the per-line documents of the first
\* *.jsonl file whose every line parses; a method with a missing directory or no
\* such file has no key; nothing is raised.
C7_FirstParsableFile ==
    pc = "loaded" =>
        /\ exc = "none"
        /\ \A i \in 1..Len(results) : \A j \in 1..Len(results) :
              i < j => \E a \in 1..Len(Methods) : \E b \in 1..Len(Methods) :
                          a < b /\ results[i][1] = Methods[a] /\ results[j][1] = Methods[b]
        /\ \A m \in 1..Len(Methods) :
              LET files == fs[m].files
                  json == {i \in 1..Len(files) : ParsesAsJson(files[i])}
                  jsonl == {i \in 1..Len(files) : EveryLineParses(files[i])}
              IN  IF fs[m].exists /\ json # {}
                  THEN /\ Methods[m] \in Keys(results)
                       /\ PayloadOf(results, Methods[m]) = json_load(files[Least(json)].lines).value
                  ELSE IF fs[m].exists /\ jsonl # {}
                  THEN /\ Methods[m] \in Keys(results)
                       /\ PayloadOf(results, Methods[m]) =
                              JList([k \in 1..Len(files[Least(jsonl)].lines) |->
                                        files[Least(jsonl)].lines[k].doc])
                  ELSE Methods[m] \notin Keys(results)

\* the case of C7: a directory is missing, and in another the first *.jsonl file has
\* a malformed second line and is rejected whole, so the second file is the payload
C7_Witness ==
    /\ pc = "loaded"
    /\ ~fs[1].exists
    /\ fs[2].exists
    /\ fs[2].files = <<File("jsonl", <<Doc(DocA), Bad>>), File("jsonl", <<Doc(DocA), Doc(DocB)>>)>>
    /\ results = << <<Methods[2], JList(<<DocA, DocB>>)>> >>

RecordsOf(data) ==
    IF data.t = "list" THEN data.l
    ELSE IF data.t = "dict" /\ "results" \in DOMAIN data.d THEN data.d["results"].l
    ELSE <<>>

RECURSIVE AllRecords(_, _)
AllRecords(res, i) ==
    IF i > Len(res) THEN <<>>
    ELSE [k \in 1..Len(RecordsOf(res[i][2])) |->
             [rec |-> RecordsOf(res[i][2])[k], method |-> res[i][1]]]
         \o AllRecords(res, i + 1)

HasQuestionField(x) == x.rec.t = "dict" /\ "question" \in DOMAIN x.rec.d

Qualifying(res) == SelectSeq(AllRecords(res, 1), HasQuestionField)

CandidatesMatch(ps, Q) ==
    /\ Len(ps) = Len(Q)
    /\ \A k \in 1..Len(Q) :
          /\ ps[k].problem = strip(Q[k].rec.d["question"].s)
          /\ ps[k].method = Q[k].method
          /\ ps[k].solution = extract_best_solution(Q[k].rec.d, Q[k].method)
          /\ Return(ps[k].confidence) = get_solution_confidence(Q[k].rec.d, Q[k].method)

\* C9 as claimed: the call returns exactly one candidate per record that has a
\* "question" field, in method order and record order, an object payload being
\* read through its "results" field and yielding nothing without it.
C9_OneCandidatePerQuestion ==
    pc # "loaded" =>
        /\ exc = "none"
        /\ CandidatesMatch(problem_solutions, Qualifying(results))

\* what stands of C9: the claim holds of every call that returns, and a call raises
\* only where get_solution_confidence raises on one of the records
C9_UnlessConfidenceRaises ==
    pc # "loaded" =>
        IF exc = "none" THEN CandidatesMatch(problem_solutions, Qualifying(results))
        ELSE \E k \in 1..Len(Qualifying(results)) :
                get_solution_confidence(Qualifying(results)[k].rec.d,
                                        Qualifying(results)[k].method).kind = "raise"

\* C8: when the loader returns an empty mapping, main prints the "No evaluation
\* results found" message and returns; nothing is extracted or aggregated, the
\* output directory is not created and the output file is not written.
C8_NoResultsNoOutput ==
    (pc # "load" /\ results = <<>>) =>
        /\ pc \in {"loaded", "exit"}
        /\ pc = "exit" => stdout = <<Say("No evaluation results found")>>
        /\ pc = "loaded" => stdout = <<>>
        /\ problem_solutions = <<>> /\ final_solutions = <<>>
        /\ ~out_dir_made
        /\ ~out_file.written /\ test_df = <<>>
        /\ exc = "none"

\* the case of C8: a method directory exists but its only file is no JSON, the
\* loader returns the empty mapping and main has returned
C8_Witness ==
    /\ pc = "exit"
    /\ results = <<>>
    /\ fs[1].exists /\ fs[1].files = <<File("json", <<Bad>>)>>
    /\ stdout = <<Say("No evaluation results found")>>
    /\ ~out_file.written

----------------------------------------------------------------------------
(* C3 and C4 (under SpecValidator).                                        *)

Passed(name) == \E i \in 1..Len(evaluated) : evaluated[i].check = name /\ evaluated[i].ok

Evaluated(name) == \E i \in 1..Len(evaluated) : evaluated[i].check = name

Failed(name) == \E i \in 1..Len(evaluated) : evaluated[i].check = name /\ ~evaluated[i].ok

PathChecks == {Checklist[i].path : i \in 1..Len(Checklist)}

ImportChecks == {Imports[i] : i \in 1..Len(Imports)}

\* C3 as claimed: the exit status is 0 if and only if every check passed: all file
\* checks, all directory checks, all four imports and the judge_correct smoke test;
\* it is 1 in every other run.
C3_ExitZeroIffAllPassed ==
    pc = "exit" =>
        /\ exit_code \in {0, 1}
        /\ exit_code = 0 <=>
              \A name \in PathChecks \cup ImportChecks \cup {"judge_correct"} : Passed(name)

\* C4 as claimed: in every run every check of the checklist (3 directories, 8
\* files, 4 imports) is evaluated before the validator exits.
C4_EveryCheckEvaluated ==
    pc = "exit" => \A name \in PathChecks \cup ImportChecks : Evaluated(name)

\* C4 amended: every directory and file check is evaluated, in order, whatever the
\* outcome of any of them, and a failure marker is printed for each that failed;
\* if any of them failed the validator exits with 1 and evaluates no import; if
\* none failed, the four imports are evaluated, an ImportError stopping nothing.
C4_ChecklistThenImports ==
    pc = "exit" =>
        /\ Len(evaluated) >= Len(Checklist)
        /\ \A i \in 1..Len(Checklist) :
              /\ evaluated[i].check = Checklist[i].path
              /\ ~evaluated[i].ok =>
                    \E n \in 1..Len(stdout) : stdout[n] = Mark(FALSE, Checklist[i].path)
        /\ (\E name \in PathChecks : Failed(name)) =>
              /\ \A name \in ImportChecks : ~Evaluated(name)
              /\ exit_code = 1
        /\ ((\A name \in PathChecks : Passed(name)) /\ exc = "none") =>
              \A name \in ImportChecks : Evaluated(name)

\* the case of C4: the first checklist directory is missing (and with it the
\* config.json inside), every other path is there, all eleven were looked at
C4_Witness ==
    /\ pc = "exit"
    /\ Len(evaluated) = Len(Checklist)
    /\ evaluated[1].found = "missing"
    /\ \A i \in 2..Len(Checklist) : i # 4 => evaluated[i].ok
    /\ \E n \in 1..Len(stdout) : stdout[n] = Mark(FALSE, Checklist[1].path)
    /\ exit_code = 1

====
